---- MODULE Spec2Model ----
(***************************************************************************)
(* Room/time scheduling and conflict-free booking engine of               *)
(* SmartClassRoomAPI: the scheduler routes (suggest, commit), the rooms    *)
(* check route and the offerings create/update routes, over the SQL       *)
(* tables dbo.course_offerings and dbo.offerings.                          *)
(***************************************************************************)
EXTENDS Integers, Sequences, FiniteSets, TLC

VARIABLES
    course_offerings,   \* rows of dbo.course_offerings (the persisted bookings)
    offerings,          \* rows of dbo.offerings (the table the rooms check reads)
    req,                \* per client: the request in flight and its response
    quota,              \* number of requests the clients may still send
    pure                \* inputs and outputs of the pure-function specifications

vars == <<course_offerings, offerings, req, quota, pure>>

(***************************************************************************)
(* Bounds of the model.                                                    *)
(***************************************************************************)
MaxReqs == 2
MaxRaceReqs == 4
MaxRows == 2
MaxTick == 4
MaxSuggestReqs == 3

\* JavaScript null / undefined and SQL NULL
NULL == -1

Clients == {1, 2}
SeqClients == {1}

\* dbo.rooms (read-only here), ordered by id
RoomTable == <<1, 2>>

(***************************************************************************)
(* Text: a string is a sequence of one-character strings.                  *)
(***************************************************************************)
Digits == <<"0", "1", "2", "3", "4", "5", "6", "7", "8", "9">>

IsDigit(c) == \E i \in 1..10 : Digits[i] = c

DigitVal(c) == (CHOOSE i \in 1..10 : Digits[i] = c) - 1

DigitChar(n) == Digits[n + 1]

RECURSIVE TrimLeft(_)
TrimLeft(s) == IF s # <<>> /\ Head(s) = " " THEN TrimLeft(Tail(s)) ELSE s

RECURSIVE TrimRight(_)
TrimRight(s) ==
    IF s # <<>> /\ s[Len(s)] = " " THEN TrimRight(SubSeq(s, 1, Len(s) - 1)) ELSE s

Trim(s) == TrimRight(TrimLeft(s))

\* String(n).padStart(2, "0") for 0 <= n <= 99
Pad2(n) == <<DigitChar(n \div 10), DigitChar(n % 10)>>

\* /^(\d{1,2}):(\d{2})$/ : the two groups as numbers, or no match
MatchHM(s) ==
    IF Len(s) = 5 /\ IsDigit(s[1]) /\ IsDigit(s[2]) /\ s[3] = ":"
                  /\ IsDigit(s[4]) /\ IsDigit(s[5])
    THEN [ok |-> TRUE, h |-> DigitVal(s[1]) * 10 + DigitVal(s[2]),
          m |-> DigitVal(s[4]) * 10 + DigitVal(s[5])]
    ELSE IF Len(s) = 4 /\ IsDigit(s[1]) /\ s[2] = ":"
                       /\ IsDigit(s[3]) /\ IsDigit(s[4])
    THEN [ok |-> TRUE, h |-> DigitVal(s[1]),
          m |-> DigitVal(s[3]) * 10 + DigitVal(s[4])]
    ELSE [ok |-> FALSE, h |-> 0, m |-> 0]

\* /^\d{2}:\d{2}$/
IsHHMM(s) ==
    Len(s) = 5 /\ IsDigit(s[1]) /\ IsDigit(s[2]) /\ s[3] = ":"
               /\ IsDigit(s[4]) /\ IsDigit(s[5])

\* parseHHMM without the range test of hours and minutes
parseHHMMNoRange(str) ==
    LET m == MatchHM(Trim(str)) IN
    IF ~m.ok THEN [ok |-> FALSE, err |-> "Invalid time format, expected HH:MM", val |-> 0]
    ELSE [ok |-> TRUE, err |-> "", val |-> m.h * 60 + m.m]

\* parseHHMM: minutes from midnight, or the error it throws
parseHHMM(str) ==
    LET m == MatchHM(Trim(str)) IN
    IF ~m.ok THEN [ok |-> FALSE, err |-> "Invalid time format, expected HH:MM", val |-> 0]
    ELSE IF m.h < 0 \/ m.h > 23 \/ m.m < 0 \/ m.m > 59
    THEN [ok |-> FALSE, err |-> "Invalid time range", val |-> 0]
    ELSE [ok |-> TRUE, err |-> "", val |-> m.h * 60 + m.m]

mmToHHMM(mm) == Pad2(mm \div 60) \o <<":">> \o Pad2(mm % 60)

hhmmToSQLTime(hhmm) == hhmm \o <<":", "0", "0">>

(***************************************************************************)
(* SQL Server TIME(0): seconds since midnight.                             *)
(***************************************************************************)
DaySeconds == 86400

\* conversion of a character parameter to TIME(0): h:mm, hh:mm, h:mm:ss or
\* hh:mm:ss with every part in range; any other text is a conversion error
SqlTime(s) ==
    LET n == Len(s)
        hasSec == n >= 7 /\ s[n - 2] = ":" /\ IsDigit(s[n - 1]) /\ IsDigit(s[n])
        hm == MatchHM(IF hasSec THEN SubSeq(s, 1, n - 3) ELSE s)
        sec == IF hasSec THEN DigitVal(s[n - 1]) * 10 + DigitVal(s[n]) ELSE 0
    IN  IF hm.ok /\ hm.h <= 23 /\ hm.m <= 59 /\ sec <= 59
        THEN [ok |-> TRUE, val |-> hm.h * 3600 + hm.m * 60 + sec]
        ELSE [ok |-> FALSE, val |-> 0]

\* CONVERT(TIME(0), DATEADD(MINUTE, n, t)): TIME arithmetic wraps at midnight
DateAddMinute(n, t) == (t + n * 60) % DaySeconds

\* CONVERT(varchar(5), t, 108): the first five characters of hh:mi:ss
ConvertVarchar5(t) == Pad2(t \div 3600) \o <<":">> \o Pad2((t % 3600) \div 60)

(***************************************************************************)
(* Conflict predicates, as each call site writes them.                     *)
(***************************************************************************)
\* a test that only asks whether the new start falls inside the existing row
SqlOverlapStartInside(start_time, end_time, start, end) ==
    start_time <= start /\ end_time > start

\* start_time < @end AND end_time > @start
SqlOverlap(start_time, end_time, start, end) ==
    start_time < end /\ end_time > start

\* the closed-interval test, under which touching intervals conflict
CheckOverlapClosed(start_minute, end_minute, newStart, newEnd) ==
    ~(end_minute < newStart \/ start_minute > newEnd)

\* NOT (o.end_minute <= @p2 OR o.start_minute >= @p3)
CheckOverlap(start_minute, end_minute, newStart, newEnd) ==
    ~(end_minute <= newStart \/ start_minute >= newEnd)

\* the guard with the room and day parameters bound the wrong way round
CommitConflictSwapped(table, room, day, start, end) ==
    \E o \in table :
        /\ o.primary_room_id = day
        /\ o.day_of_week = room
        /\ start < o.end_time /\ end > o.start_time

\* IF EXISTS (...) of POST /scheduler/commit
CommitConflict(table, room, day, start, end) ==
    \E o \in table :
        /\ o.primary_room_id = room
        /\ o.day_of_week = day
        /\ SqlOverlap(o.start_time, o.end_time, start, end)

\* IF EXISTS (...) of POST /offerings
CreateConflict(table, room, day, start, end) ==
    \E o \in table :
        /\ o.primary_room_id = room
        /\ o.day_of_week = day
        /\ SqlOverlap(o.start_time, o.end_time, start, end)

\* the guard with id = @id in place of id <> @id
PatchConflictSelfOnly(table, id, room, day, start, end) ==
    \E o \in table :
        /\ o.primary_room_id = room
        /\ o.day_of_week = day
        /\ o.id = id
        /\ start < o.end_time /\ end > o.start_time

\* the guard without id <> @id
PatchConflictNoExclude(table, id, room, day, start, end) ==
    \E o \in table :
        /\ o.primary_room_id = room
        /\ o.day_of_week = day
        /\ SqlOverlap(o.start_time, o.end_time, start, end)

\* IF EXISTS (...) of PATCH /offerings/:id, which skips the row itself
PatchConflict(table, id, room, day, start, end) ==
    \E o \in table :
        /\ o.primary_room_id = room
        /\ o.day_of_week = day
        /\ o.id # id
        /\ SqlOverlap(o.start_time, o.end_time, start, end)

(***************************************************************************)
(* Tables.                                                                 *)
(***************************************************************************)
\* dbo.courses (read-only here)
CourseTable == {1}

\* dbo.terms, dbo.sections, dbo.groups (read-only here)
TermTable == {1}

SectionTable == {1}

GroupTable == {1}

\* a provided id must be in the table; an absent one passes
mustExistIfProvided(table, id) == id = NULL \/ id \in table

RoomIds == {RoomTable[i] : i \in 1..Len(RoomTable)}

\* IDENTITY column of dbo.course_offerings (no route deletes from it)
NextId(table) == Cardinality(table) + 1

\* a row of dbo.course_offerings; via records the route that last wrote it
Offering(id, course, room, day, start, end, dur, via) ==
    [id |-> id, course_id |-> course, term_id |-> NULL, section_id |-> NULL,
     group_id |-> NULL, primary_room_id |-> room,
     day_of_week |-> day, start_time |-> start, end_time |-> end,
     duration_minutes |-> dur, via |-> via]

\* the term, section and group of a request body or row (null when absent)
WithRefs(x, term, section, group) ==
    [x EXCEPT !.term_id = term, !.section_id = section, !.group_id = group]

(***************************************************************************)
(* Requests.                                                               *)
(***************************************************************************)
NoResp == [status |-> 0]

\* base: the bookings persisted when the request arrived; snap: the bookings
\* read by the Suggest call whose suggestions the request commits; queries:
\* the number of storage queries a Suggest call issued
Idle == [kind |-> "none", stage |-> "done", body |-> NULL, idx |-> 0,
         results |-> <<>>, resp |-> NoResp, tmp |-> NULL, base |-> {},
         snap |-> {}, suggested |-> FALSE, queries |-> 0]

\* a client may send a request when it has none in flight
CanStart(c) == req[c].stage = "done" /\ quota > 0

ErrorResp(code, msg) == [status |-> code, error |-> msg]

(***************************************************************************)
(* POST /scheduler/commit                                                  *)
(***************************************************************************)
CommitRowObj(course, room, day, start, end, dur) ==
    [course_id |-> course, term_id |-> NULL, section_id |-> NULL,
     group_id |-> NULL, room_id |-> room, day_of_week |-> day,
     start_time |-> start, end_time |-> end, duration_minutes |-> dur]

RowResult(ok, reason, id, row) ==
    [ok |-> ok, reason |-> reason, offering_id |-> id, row |-> row]

CountOk(results) == Cardinality({i \in 1..Len(results) : results[i].ok})

CountFailed(results) == Cardinality({i \in 1..Len(results) : ~results[i].ok})

\* res.json({status: true, results, created, failed})
CommitResp(results) ==
    [status |-> 200, results |-> results,
     created |-> CountOk(results), failed |-> CountFailed(results)]

\* the row loop moves to the next row, or answers after the last one
CommitPush(r, result) ==
    LET results == Append(r.results, result) IN
    IF r.idx = Len(r.body)
    THEN [r EXCEPT !.results = results, !.idx = r.idx + 1, !.stage = "done",
                   !.resp = CommitResp(results)]
    ELSE [r EXCEPT !.results = results, !.idx = r.idx + 1, !.stage = "row"]

\* catch (err): status 500 with the error's message
CommitThrow(r, msg) == [r EXCEPT !.stage = "done", !.resp = ErrorResp(500, msg)]

\* the request arrives; rows must be a non-empty array
CommitStart(c, rows, suggested) ==
    /\ CanStart(c)
    /\ quota' = quota - 1
    /\ req' = [req EXCEPT ![c] =
          IF Len(rows) = 0
          THEN [Idle EXCEPT !.kind = "commit", !.body = rows,
                    !.base = course_offerings,
                    !.resp = ErrorResp(400, "rows is required and must be non-empty")]
          ELSE [Idle EXCEPT !.kind = "commit", !.stage = "row", !.body = rows,
                    !.idx = 1, !.base = course_offerings,
                    !.snap = IF suggested THEN req[c].snap ELSE {},
                    !.suggested = suggested]]
    /\ UNCHANGED <<course_offerings, offerings, pure>>

\* per-row validation, then the IF EXISTS statement of the batch
CommitRow(c) ==
    LET r == req[c]
        row == r.body[r.idx]
        sHH == parseHHMM(row.start_time)
        eHH == parseHHMM(row.end_time)
        start == SqlTime(hhmmToSQLTime(row.start_time))
        end == SqlTime(hhmmToSQLTime(row.end_time))
    IN
    /\ r.kind = "commit" /\ r.stage = "row"
    /\ req' = [req EXCEPT ![c] =
          IF \/ row.course_id = NULL \/ row.course_id = 0
             \/ row.room_id = NULL \/ row.day_of_week = NULL
             \/ row.start_time = <<>> \/ row.end_time = <<>>
          THEN CommitPush(r, RowResult(FALSE, "Missing required fields", NULL, row))
          ELSE IF row.day_of_week < 0 \/ row.day_of_week > 6
          THEN CommitPush(r, RowResult(FALSE, "Invalid day_of_week", NULL, row))
          ELSE IF ~sHH.ok THEN CommitThrow(r, sHH.err)
          ELSE IF ~eHH.ok THEN CommitThrow(r, eHH.err)
          ELSE IF eHH.val <= sHH.val
          THEN CommitPush(r, RowResult(FALSE, "end_time must be after start_time", NULL, row))
          ELSE IF ~start.ok \/ ~end.ok
          THEN CommitThrow(r, "Conversion failed")
          ELSE IF CommitConflict(course_offerings, row.room_id, row.day_of_week,
                                 start.val, end.val)
          THEN CommitPush(r, RowResult(FALSE, "Room already booked at this day/time", NULL, row))
          ELSE [r EXCEPT !.stage = "insert"]]
    /\ UNCHANGED <<course_offerings, offerings, quota, pure>>

\* the references of a commit row that the tables hold
RowRefsKnown(row) ==
    /\ row.course_id \in CourseTable /\ row.room_id \in RoomIds
    /\ mustExistIfProvided(TermTable, row.term_id)
    /\ mustExistIfProvided(SectionTable, row.section_id)
    /\ mustExistIfProvided(GroupTable, row.group_id)

\* the INSERT statement of the batch, and the row's result; with a reference
\* no table holds the statement inserts the row, or fails on a foreign key
\* and the request ends in the catch block
CommitInsert(c) ==
    LET r == req[c]
        row == r.body[r.idx]
        sHH == parseHHMM(row.start_time)
        eHH == parseHHMM(row.end_time)
        id == NextId(course_offerings)
        dur == IF row.duration_minutes = NULL \/ row.duration_minutes = 0
               THEN eHH.val - sHH.val ELSE row.duration_minutes
    IN
    /\ r.kind = "commit" /\ r.stage = "insert"
    /\ \/ /\ course_offerings' = course_offerings \cup
               {WithRefs(Offering(id, row.course_id, row.room_id, row.day_of_week,
                                  SqlTime(hhmmToSQLTime(row.start_time)).val,
                                  SqlTime(hhmmToSQLTime(row.end_time)).val,
                                  dur, "commit"),
                         row.term_id, row.section_id, row.group_id)}
          /\ req' = [req EXCEPT ![c] =
                IF id # NULL /\ id # 0
                THEN CommitPush(r, RowResult(TRUE, "", id, row))
                ELSE CommitPush(r, RowResult(FALSE, "Insert failed", NULL, row))]
       \/ /\ ~RowRefsKnown(row)
          /\ course_offerings' = course_offerings
          /\ req' = [req EXCEPT ![c] =
                CommitThrow(r, "The INSERT statement conflicted with the FOREIGN KEY constraint")]
    /\ UNCHANGED <<offerings, quota, pure>>

(***************************************************************************)
(* POST /offerings (single create)                                         *)
(***************************************************************************)
CreateBody(course, room, day, start, end, dur) ==
    [course_id |-> course, term_id |-> NULL, section_id |-> NULL,
     group_id |-> NULL, primary_room_id |-> room, day_of_week |-> day,
     start_time |-> start, end_time |-> end, duration_minutes |-> dur]

\* /^\d{2}:\d{2}$/.test(t) ? `${t}:00` : String(t)
NormalizeTimeStr(t) == IF IsHHMM(t) THEN t \o <<":", "0", "0">> ELSE t

Done(kind, body, resp) ==
    [Idle EXCEPT !.kind = kind, !.body = body, !.resp = resp]

\* validation, foreign keys, then DECLARE @start/@end and the IF EXISTS statement
CreateCheck(c, b) ==
    LET start == SqlTime(NormalizeTimeStr(b.start_time))
        hasEnd == b.end_time # <<>>
        end == IF hasEnd THEN SqlTime(NormalizeTimeStr(b.end_time))
               ELSE [ok |-> TRUE, val |-> DateAddMinute(b.duration_minutes, start.val)]
        dur == b.duration_minutes
        fail(code, msg) == Done("create", b, ErrorResp(code, msg))
    IN
    /\ CanStart(c)
    /\ quota' = quota - 1
    /\ req' = [req EXCEPT ![c] =
          IF b.course_id = NULL \/ b.course_id = 0
          THEN fail(400, "course_id is required")
          ELSE IF b.day_of_week = NULL THEN fail(400, "day_of_week is required")
          ELSE IF b.start_time = <<>> THEN fail(400, "start_time is required")
          ELSE IF ~hasEnd /\ (dur = NULL \/ dur = 0)
          THEN fail(400, "Provide end_time or duration_minutes")
          ELSE IF b.course_id \notin CourseTable THEN fail(400, "Unknown course_id")
          ELSE IF ~mustExistIfProvided(TermTable, b.term_id)
          THEN fail(400, "Unknown term_id")
          ELSE IF ~mustExistIfProvided(SectionTable, b.section_id)
          THEN fail(400, "Unknown section_id")
          ELSE IF ~mustExistIfProvided(GroupTable, b.group_id)
          THEN fail(400, "Unknown group_id")
          ELSE IF b.primary_room_id # NULL /\ b.primary_room_id \notin RoomIds
          THEN fail(400, "Unknown primary_room_id")
          ELSE IF b.day_of_week < 0 \/ b.day_of_week > 6
          THEN fail(400, "day_of_week must be 0..6")
          ELSE IF dur # NULL /\ (dur <= 0 \/ dur > 600)
          THEN fail(400, "duration_minutes must be 1..600")
          ELSE IF ~start.ok \/ ~end.ok THEN fail(500, "Server error")
          ELSE IF /\ b.primary_room_id # NULL
                  /\ CreateConflict(course_offerings, b.primary_room_id,
                                    b.day_of_week, start.val, end.val)
          THEN fail(409, "Room already booked at this day/time")
          ELSE [Idle EXCEPT !.kind = "create", !.stage = "insert", !.body = b,
                    !.base = course_offerings,
                    !.tmp = [start |-> start.val, end |-> end.val]]]
    /\ UNCHANGED <<course_offerings, offerings, pure>>

\* the INSERT statement and the answer
CreateInsert(c) ==
    LET r == req[c]
        b == r.body
        id == NextId(course_offerings)
    IN
    /\ r.kind = "create" /\ r.stage = "insert"
    /\ course_offerings' = course_offerings \cup
          {WithRefs(Offering(id, b.course_id, b.primary_room_id, b.day_of_week,
                             r.tmp.start, r.tmp.end, b.duration_minutes, "create"),
                    b.term_id, b.section_id, b.group_id)}
    /\ req' = [req EXCEPT ![c] =
          [r EXCEPT !.stage = "done",
                    !.resp = [status |-> 200, offering_id |-> id]]]
    /\ UNCHANGED <<offerings, quota, pure>>

(***************************************************************************)
(* PATCH /offerings/:id (update, move)                                     *)
(***************************************************************************)
PatchBody(id, room, day, start, end, dur) ==
    [id |-> id, term_id |-> NULL, section_id |-> NULL, group_id |-> NULL,
     primary_room_id |-> room, day_of_week |-> day,
     start_time |-> start, end_time |-> end, duration_minutes |-> dur]

Coalesce(a, b) == IF a # NULL THEN a ELSE b

\* the row with the given id
RowById(table, id) == CHOOSE o \in table : o.id = id

\* existence check, validation, foreign keys, then the batch up to the
\* DECLAREs: the current row is read and @day, @start, @end, @room are fixed
PatchRead(c, b) ==
    LET hasStart == b.start_time # <<>>
        hasEnd == b.end_time # <<>>
        dow == b.day_of_week
        dur == b.duration_minutes
        p2 == IF hasStart THEN SqlTime(NormalizeTimeStr(b.start_time))
              ELSE [ok |-> TRUE, val |-> NULL]
        p3 == IF hasEnd THEN SqlTime(NormalizeTimeStr(b.end_time))
              ELSE [ok |-> TRUE, val |-> NULL]
        cur == RowById(course_offerings, b.id)
        start == Coalesce(p2.val, cur.start_time)
        end == IF p3.val # NULL THEN p3.val
               ELSE IF dur # NULL THEN DateAddMinute(dur, start)
               ELSE cur.end_time
        room == Coalesce(b.primary_room_id, cur.primary_room_id)
        fail(code, msg) == Done("patch", b, ErrorResp(code, msg))
    IN
    /\ CanStart(c)
    /\ quota' = quota - 1
    /\ req' = [req EXCEPT ![c] =
          IF ~\E o \in course_offerings : o.id = b.id
          THEN fail(404, "Offering not found")
          ELSE IF dow # NULL /\ (dow < 0 \/ dow > 6)
          THEN fail(400, "day_of_week must be 0..6")
          ELSE IF dur # NULL /\ (dur <= 0 \/ dur > 600)
          THEN fail(400, "duration_minutes must be 1..600")
          ELSE IF ~mustExistIfProvided(TermTable, b.term_id)
          THEN fail(400, "Unknown term_id")
          ELSE IF ~mustExistIfProvided(SectionTable, b.section_id)
          THEN fail(400, "Unknown section_id")
          ELSE IF ~mustExistIfProvided(GroupTable, b.group_id)
          THEN fail(400, "Unknown group_id")
          ELSE IF b.primary_room_id # NULL /\ b.primary_room_id \notin RoomIds
          THEN fail(400, "Unknown primary_room_id")
          ELSE IF ~p2.ok \/ ~p3.ok THEN fail(500, "Server error")
          ELSE [Idle EXCEPT !.kind = "patch", !.body = b,
                    !.stage = IF room # NULL THEN "check" ELSE "update",
                    !.base = course_offerings,
                    !.tmp = [day |-> Coalesce(dow, cur.day_of_week),
                             start |-> start, end |-> end, room |-> room]]]
    /\ UNCHANGED <<course_offerings, offerings, pure>>

\* the IF EXISTS statement of the batch
PatchCheck(c) ==
    LET r == req[c] IN
    /\ r.kind = "patch" /\ r.stage = "check"
    /\ req' = [req EXCEPT ![c] =
          IF PatchConflict(course_offerings, r.body.id, r.tmp.room, r.tmp.day,
                           r.tmp.start, r.tmp.end)
          THEN [r EXCEPT !.stage = "done",
                         !.resp = ErrorResp(409, "Room already booked at this day/time")]
          ELSE [r EXCEPT !.stage = "update"]]
    /\ UNCHANGED <<course_offerings, offerings, quota, pure>>

\* the UPDATE statement with the incoming values in place of the COALESCEs
PatchRowOverwrite(o, b, tmp) ==
    [o EXCEPT !.term_id = b.term_id,
              !.section_id = b.section_id,
              !.group_id = b.group_id,
              !.primary_room_id = b.primary_room_id,
              !.day_of_week = tmp.day,
              !.start_time = tmp.start,
              !.end_time = tmp.end,
              !.duration_minutes = b.duration_minutes,
              !.via = "patch"]

\* the UPDATE statement: unsupplied fields keep the row's current value
PatchRow(o, b, tmp) ==
    [o EXCEPT !.term_id = Coalesce(b.term_id, o.term_id),
              !.section_id = Coalesce(b.section_id, o.section_id),
              !.group_id = Coalesce(b.group_id, o.group_id),
              !.primary_room_id = Coalesce(b.primary_room_id, o.primary_room_id),
              !.day_of_week = tmp.day,
              !.start_time = tmp.start,
              !.end_time = tmp.end,
              !.duration_minutes = Coalesce(b.duration_minutes, o.duration_minutes),
              !.via = "patch"]

PatchUpdate(c) ==
    LET r == req[c] IN
    /\ r.kind = "patch" /\ r.stage = "update"
    /\ course_offerings' =
          {IF o.id = r.body.id THEN PatchRow(o, r.body, r.tmp) ELSE o :
              o \in course_offerings}
    /\ req' = [req EXCEPT ![c] =
          [r EXCEPT !.stage = "done",
                    !.resp = [status |-> 200, message |-> "Offering updated"]]]
    /\ UNCHANGED <<offerings, quota, pure>>

(***************************************************************************)
(* POST /scheduler/suggest                                                 *)
(***************************************************************************)
SuggestBody(courses, ds, de, ws, we, slot, rooms) ==
    [course_ids |-> courses, day_start |-> ds, day_end |-> de,
     work_start |-> ws, work_end |-> we, slot_minutes |-> slot,
     room_ids |-> rooms]

Max(a, b) == IF a >= b THEN a ELSE b

Min(a, b) == IF a <= b THEN a ELSE b

SeqToSet(q) == {q[i] : i \in 1..Len(q)}

\* arr.sort((a, b) => a.s - b.s): stable, ascending by s
RECURSIVE SortByS(_)
SortByS(arr) ==
    IF Len(arr) <= 1 THEN arr
    ELSE LET init == SortByS(SubSeq(arr, 1, Len(arr) - 1))
             x == arr[Len(arr)]
             k == Cardinality({i \in 1..Len(init) : init[i].s <= x.s})
         IN  SubSeq(init, 1, k) \o <<x>> \o SubSeq(init, k + 1, Len(init))

\* ORDER BY o.primary_room_id, o.day_of_week, o.start_time, for one room and day
RECURSIVE OrderByStart(_)
OrderByStart(rows) ==
    IF rows = {} THEN <<>>
    ELSE LET o == CHOOSE x \in rows : \A y \in rows :
                      \/ x.start_time < y.start_time
                      \/ (x.start_time = y.start_time /\ x.id <= y.id)
         IN  <<o>> \o OrderByStart(rows \ {o})

\* one booked row, clamped to the work window
ClampRow(o, ws, we) ==
    LET sv == parseHHMM(ConvertVarchar5(o.start_time)).val
        ev == parseHHMM(ConvertVarchar5(o.end_time)).val
    IN  [s |-> Max(sv, ws), e |-> Min(ev, we)]

\* busy.get(room).get(day): the clamped intervals that are not empty, sorted
BusyList(table, room, day, ws, we) ==
    LET rows == OrderByStart({o \in table :
                    o.primary_room_id = room /\ o.day_of_week = day})
        clamped == [i \in 1..Len(rows) |-> ClampRow(rows[i], ws, we)]
        IsKept(itv) == itv.e > itv.s
    IN  SortByS(SelectSeq(clamped, IsKept))

\* used: a copy of busy, room -> day -> intervals
UsedInit(table, rooms, ds, de, ws, we) ==
    [r \in SeqToSet(rooms) |-> [d \in ds..de |-> BusyList(table, r, d, ws, we)]]

\* the gap scan of tryPlaceInRoomDay from interval i on
RECURSIVE ScanGaps(_, _, _, _, _)
ScanGaps(intervals, i, prev, we, duration) ==
    IF i > Len(intervals)
    THEN IF we - prev >= duration
         THEN [hit |-> TRUE, start |-> prev, end |-> prev + duration]
         ELSE [hit |-> FALSE, start |-> 0, end |-> 0]
    ELSE IF intervals[i].s - prev >= duration
    THEN [hit |-> TRUE, start |-> prev, end |-> prev + duration]
    ELSE ScanGaps(intervals, i + 1, Max(prev, intervals[i].e), we, duration)

tryPlaceInRoomDay(used, roomId, day, ws, we, duration) ==
    ScanGaps(used[roomId][day], 1, ws, we, duration)

\* days ascending, rooms in order within a day: the first pair with a gap,
\* from the k-th pair on
RECURSIVE FirstFit(_, _, _, _, _, _, _, _)
FirstFit(used, rooms, ds, de, ws, we, duration, k) ==
    LET d == ds + (k \div Len(rooms))
        r == rooms[(k % Len(rooms)) + 1]
        hit == tryPlaceInRoomDay(used, r, d, ws, we, duration)
    IN  IF d > de THEN [placed |-> FALSE]
        ELSE IF hit.hit
        THEN [placed |-> TRUE, room_id |-> r, day_of_week |-> d,
              start |-> hit.start, end |-> hit.end]
        ELSE FirstFit(used, rooms, ds, de, ws, we, duration, k + 1)

\* a placement that is not pushed into used
ReserveNothing(used, r, d, s, e) == used

\* the push without the sort that follows
ReserveUnsorted(used, r, d, s, e) ==
    [used EXCEPT ![r][d] = Append(@, [s |-> s, e |-> e])]

\* used.get(r).get(d).push({s, e}) and the sort that follows
Reserve(used, r, d, s, e) ==
    [used EXCEPT ![r][d] = SortByS(Append(@, [s |-> s, e |-> e]))]

Suggestion(course, room, day, start, end, dur, ok, reason) ==
    [course_id |-> course, room_id |-> room, day_of_week |-> day,
     start_time |-> start, end_time |-> end, duration_minutes |-> dur,
     ok |-> ok, reason |-> reason]

\* a greedy loop that stops at the first course it cannot place
RECURSIVE GreedyStopAtFailure(_, _, _, _, _, _, _, _, _)
GreedyStopAtFailure(course_ids, i, used, rooms, ds, de, ws, we, dur) ==
    IF i > Len(course_ids) THEN <<>>
    ELSE LET chosen == FirstFit(used, rooms, ds, de, ws, we, dur, 0) IN
         IF chosen.placed
         THEN <<Suggestion(course_ids[i], chosen.room_id, chosen.day_of_week,
                           mmToHHMM(chosen.start), mmToHHMM(chosen.end), dur,
                           TRUE, "")>>
              \o GreedyStopAtFailure(course_ids, i + 1,
                        Reserve(used, chosen.room_id, chosen.day_of_week,
                                chosen.start, chosen.end),
                        rooms, ds, de, ws, we, dur)
         ELSE <<Suggestion(course_ids[i], NULL, NULL, <<>>, <<>>, dur, FALSE,
                           "No free slot within working window")>>

\* the greedy loop over course_ids from entry i on
RECURSIVE Greedy(_, _, _, _, _, _, _, _, _)
Greedy(course_ids, i, used, rooms, ds, de, ws, we, dur) ==
    IF i > Len(course_ids) THEN <<>>
    ELSE LET chosen == FirstFit(used, rooms, ds, de, ws, we, dur, 0) IN
         IF chosen.placed
         THEN <<Suggestion(course_ids[i], chosen.room_id, chosen.day_of_week,
                           mmToHHMM(chosen.start), mmToHHMM(chosen.end), dur,
                           TRUE, "")>>
              \o Greedy(course_ids, i + 1,
                        Reserve(used, chosen.room_id, chosen.day_of_week,
                                chosen.start, chosen.end),
                        rooms, ds, de, ws, we, dur)
         ELSE <<Suggestion(course_ids[i], NULL, NULL, <<>>, <<>>, dur, FALSE,
                           "No free slot within working window")>>
              \o Greedy(course_ids, i + 1, used, rooms, ds, de, ws, we, dur)

\* the orders in which SELECT ... WHERE id IN (...) (no ORDER BY) may return
\* the rooms of room_ids; without room_ids (an empty sequence here, as for
\* every value that is no non-empty array) SELECT ... ORDER BY id returns
\* RoomTable
RoomOrders(room_ids) ==
    IF room_ids = <<>>
    THEN {RoomTable}
    ELSE LET found == SeqToSet(room_ids) \cap RoomIds IN
         {q \in UNION {[1..n -> found] : n \in {Cardinality(found)}} :
              SeqToSet(q) = found}

\* Number(slot_minutes) || 90, with 90 the default of an omitted slot_minutes
SlotMinutes(slot) == IF slot = NULL \/ slot = 0 THEN 90 ELSE slot

\* the answer of the handler for body b when the rooms query returns rooms
\* and the bookings query reads table: validation, the two reads, the greedy
\* placement
SuggestResp(b, rooms, table) ==
    LET ds == b.day_start
        de == b.day_end
        wsP == parseHHMM(b.work_start)
        weP == parseHHMM(b.work_end)
        ws == wsP.val
        we == weP.val
        dur == SlotMinutes(b.slot_minutes)
        fail(code, msg) == Done("suggest", b, ErrorResp(code, msg))
    IN
    IF b.course_ids = <<>>
    THEN fail(400, "course_ids is required and must be non-empty array")
    ELSE IF ds = NULL \/ de = NULL \/ ds < 0 \/ de > 6 \/ ds > de
    THEN fail(400, "Invalid day_start/day_end (0..6 and start <= end)")
    ELSE IF ~wsP.ok THEN fail(500, wsP.err)
    ELSE IF ~weP.ok THEN fail(500, weP.err)
    ELSE IF we <= ws THEN fail(400, "work_end must be after work_start")
    ELSE IF dur <= 0 \/ dur > 600
    THEN fail(400, "slot_minutes out of range (1..600)")
    ELSE IF rooms = <<>>
    THEN [fail(400, "No rooms found to schedule into") EXCEPT !.queries = 1]
    ELSE [Idle EXCEPT !.kind = "suggest", !.body = b,
              !.snap = table,
              !.queries = 2,
              !.resp = [status |-> 200,
                        days |-> [start |-> ds, end |-> de],
                        work_window |-> [start |-> b.work_start,
                                         end |-> b.work_end],
                        slot_minutes |-> dur,
                        rooms |-> rooms,
                        suggestions |->
                           Greedy(b.course_ids, 1,
                                  UsedInit(table, rooms, ds, de, ws, we),
                                  rooms, ds, de, ws, we, dur)]]

\* a handler that also inserts its first placement as a booking
SuggestPersisting(c, b) ==
    /\ CanStart(c)
    /\ quota' = quota - 1
    /\ \E rooms \in RoomOrders(b.room_ids) :
         LET r == SuggestResp(b, rooms, course_offerings)
             x == r.resp.suggestions[1]
         IN  /\ req' = [req EXCEPT ![c] = r]
             /\ course_offerings' =
                  IF r.resp.status = 200 /\ x.ok
                  THEN course_offerings \cup
                         {Offering(NextId(course_offerings), x.course_id,
                                   x.room_id, x.day_of_week,
                                   parseHHMM(x.start_time).val * 60,
                                   parseHHMM(x.end_time).val * 60,
                                   x.duration_minutes, "suggest")}
                  ELSE course_offerings
    /\ UNCHANGED <<offerings, pure>>

\* the whole handler: it answers and writes nothing
Suggest(c, b) ==
    /\ CanStart(c)
    /\ quota' = quota - 1
    /\ \E rooms \in RoomOrders(b.room_ids) :
         req' = [req EXCEPT ![c] = SuggestResp(b, rooms, course_offerings)]
    /\ UNCHANGED <<course_offerings, offerings, pure>>

\* the rows a client sends to commit from the suggestions it was given
RECURSIVE RowsOfSuggestions(_)
RowsOfSuggestions(sg) ==
    IF sg = <<>> THEN <<>>
    ELSE LET x == Head(sg) IN
         (IF x.ok
          THEN <<CommitRowObj(x.course_id, x.room_id, x.day_of_week,
                              x.start_time, x.end_time, x.duration_minutes)>>
          ELSE <<>>) \o RowsOfSuggestions(Tail(sg))

\* the client commits the placed suggestions of the answer it holds
CommitSuggested(c) ==
    /\ req[c].kind = "suggest"
    /\ req[c].resp.status = 200
    /\ RowsOfSuggestions(req[c].resp.suggestions) # <<>>
    /\ CommitStart(c, RowsOfSuggestions(req[c].resp.suggestions), TRUE)

(***************************************************************************)
(* POST /rooms/check                                                       *)
(***************************************************************************)
\* dbo.time_slots (read-only here)
TimeSlotTable == {[id |-> 1, start_minute |-> 480, end_minute |-> 540]}

\* a JSON value of the body: absent, a number or a string
Absent == [t |-> "none"]

Num(n) == [t |-> "num", v |-> n]

Str(q) == [t |-> "str", v |-> q]

CheckBody(room, day, slot, start, end, exclude) ==
    [room_id |-> room, day_index |-> day, time_slot_id |-> slot,
     start_time |-> start, end_time |-> end, exclude_offering_id |-> exclude]

\* toMinutes: null for an absent value, the number itself, hh * 60 + mm of a
\* matching string, NaN otherwise
toMinutes(v) ==
    IF v.t = "none" \/ (v.t = "str" /\ v.v = <<>>) THEN [finite |-> FALSE, val |-> 0]
    ELSE IF v.t = "num" THEN [finite |-> TRUE, val |-> v.v]
    ELSE LET m == MatchHM(v.v) IN
         IF m.ok THEN [finite |-> TRUE, val |-> m.h * 60 + m.m]
         ELSE [finite |-> FALSE, val |-> 0]

\* the rows the conflict query matches
CheckMatches(table, room, day, newStart, newEnd, exclude) ==
    {o \in table :
        /\ o.room_id = room
        /\ o.day_index = day
        /\ CheckOverlap(o.start_minute, o.end_minute, newStart, newEnd)
        /\ (exclude # NULL /\ exclude # 0 => o.id # exclude)}

\* SELECT TOP 1 without the ORDER BY: any matching row
CheckTop1Unordered(matches) == matches

\* SELECT TOP 1 ... ORDER BY o.start_minute ASC: the candidates for the row
CheckTop1(matches) ==
    {o \in matches : \A x \in matches : o.start_minute <= x.start_minute}

\* the whole handler
Check(c, b) ==
    LET hasSlot == b.time_slot_id # NULL /\ b.time_slot_id # 0
        slots == {t \in TimeSlotTable : t.id = b.time_slot_id}
        slot == CHOOSE t \in slots : TRUE
        ns == IF hasSlot THEN [finite |-> TRUE, val |-> slot.start_minute]
              ELSE toMinutes(b.start_time)
        ne == IF hasSlot THEN [finite |-> TRUE, val |-> slot.end_minute]
              ELSE toMinutes(b.end_time)
        matches == CheckMatches(offerings, b.room_id, b.day_index, ns.val, ne.val,
                                b.exclude_offering_id)
        normalized == [start_minute |-> ns.val, end_minute |-> ne.val]
        \* base, snap: both tables as they were when the call was answered
        answer(resp) == [Done("check", b, resp) EXCEPT !.base = course_offerings,
                                                       !.snap = offerings]
        fail(code, msg) == answer(ErrorResp(code, msg))
    IN
    /\ CanStart(c)
    /\ quota' = quota - 1
    /\ IF b.room_id = NULL \/ b.room_id = 0 \/ b.day_index = NULL
       THEN req' = [req EXCEPT ![c] = fail(400, "room_id and day_index are required")]
       ELSE IF hasSlot /\ slots = {}
       THEN req' = [req EXCEPT ![c] = fail(404, "time_slot_id not found")]
       ELSE IF ~ns.finite \/ ~ne.finite \/ ns.val < 0 \/ ne.val <= ns.val
       THEN req' = [req EXCEPT ![c] = fail(400, "Invalid time range")]
       ELSE IF b.room_id \notin RoomIds
       THEN req' = [req EXCEPT ![c] = fail(404, "Room not found")]
       ELSE IF matches = {}
       THEN req' = [req EXCEPT ![c] =
               answer([status |-> 200, free |-> TRUE,
                       normalized |-> normalized])]
       ELSE \E o \in CheckTop1(matches) :
               req' = [req EXCEPT ![c] =
                  answer(
                       [status |-> 200, free |-> FALSE,
                        conflict |-> [offering_id |-> o.id,
                                      day_index |-> o.day_index,
                                      start_minute |-> o.start_minute,
                                      end_minute |-> o.end_minute],
                        normalized |-> normalized])]
    /\ UNCHANGED <<course_offerings, offerings, pure>>

(***************************************************************************)
(* Inputs.                                                                 *)
(***************************************************************************)
T0800 == <<"0", "8", ":", "0", "0">>
T0830 == <<"0", "8", ":", "3", "0">>
T0900 == <<"0", "9", ":", "0", "0">>
T0930 == <<"0", "9", ":", "3", "0">>
T1000 == <<"1", "0", ":", "0", "0">>
T2330 == <<"2", "3", ":", "3", "0">>
T2500 == <<"2", "5", ":", "0", "0">>
T900 == <<"9", ":", "0", "0">>
T083030 == <<"0", "8", ":", "3", "0", ":", "3", "0">>
TNone == <<>>

\* rows of a commit batch: three slots of room 1 on day 0 (08:00-09:00,
\* 08:30-09:30 overlapping it, 09:00-10:00 touching it), the first slot in
\* room 2, and rows that fail the per-row validation
RowSamples ==
    { CommitRowObj(1, 1, 0, T0800, T0900, NULL),
      CommitRowObj(1, 1, 0, T0830, T0930, 30),
      CommitRowObj(1, 1, 0, T900, T1000, NULL),
      CommitRowObj(1, 2, 0, T0800, T0900, NULL),
      CommitRowObj(1, 1, 0, T2500, T0900, NULL),
      CommitRowObj(1, 1, 0, T0900, T0800, NULL),
      CommitRowObj(NULL, 1, 7, T0800, T0900, NULL),
      CommitRowObj(1, 1, 7, T0800, T0900, NULL) }

\* the batches of at most n rows
Batches(rows, n) == UNION {[1..k -> rows] : k \in 0..n}

CreateSamples ==
    { CreateBody(1, 1, 0, T0800, T0900, NULL),
      CreateBody(1, 1, 0, T0830, TNone, 60),
      CreateBody(1, 1, 0, T2330, TNone, 60),
      CreateBody(1, 1, 0, T0930, T0900, NULL),
      CreateBody(1, 1, 0, T083030, T0930, 60),
      CreateBody(1, NULL, 0, T0800, T0900, NULL),
      CreateBody(1, 1, 0, T2500, T0900, NULL),
      CreateBody(2, 1, 0, T0800, T0900, NULL),
      CreateBody(1, 3, 0, T0800, T0900, NULL),
      CreateBody(1, 1, 0, T0800, TNone, NULL),
      CreateBody(1, 1, 0, T0800, TNone, 601),
      CreateBody(1, 1, 7, T0800, T0900, NULL) }

PatchSamples ==
    { PatchBody(id, b[1], b[2], b[3], b[4], b[5]) :
        id \in 1..2,
        b \in { <<NULL, NULL, T0830, TNone, NULL>>,
                <<NULL, NULL, TNone, T0930, NULL>>,
                <<NULL, NULL, TNone, TNone, 30>>,
                <<2, NULL, TNone, TNone, NULL>>,
                <<NULL, 1, TNone, TNone, NULL>>,
                <<NULL, NULL, T0900, T1000, NULL>>,
                <<NULL, 7, TNone, TNone, NULL>>,
                <<NULL, NULL, T2500, TNone, NULL>> } }

\* the inputs of the specification with concurrent clients
RaceRows ==
    { CommitRowObj(1, 1, 0, T0800, T0900, NULL),
      CommitRowObj(1, 1, 0, T0830, T0930, NULL) }

RaceCreates == { CreateBody(1, 1, 0, T0900, T1000, NULL) }

RacePatches ==
    { PatchBody(1, NULL, NULL, T0830, T0930, NULL),
      PatchBody(2, NULL, NULL, T0800, T0900, NULL) }

RaceSuggests ==
    { SuggestBody(<<1>>, 0, 0, T0800, T1000, 60, <<>>),
      SuggestBody(<<1>>, 0, 0, T0830, T1000, 60, <<1>>) }

(***************************************************************************)
(* Specifications.                                                         *)
(***************************************************************************)
NoPure == [op |-> "none"]

\* the service starts with no booking; dbo.offerings holds what it holds
OfferingSamples ==
    { [id |-> 1, room_id |-> 1, day_index |-> 0,
       start_minute |-> 540, end_minute |-> 630],
      [id |-> 2, room_id |-> 1, day_index |-> 0,
       start_minute |-> 600, end_minute |-> 660] }

Init ==
    /\ course_offerings = {}
    /\ offerings = {}
    /\ req = [c \in Clients |-> Idle]
    /\ quota = MaxRaceReqs
    /\ pure = NoPure

\* the same service, with the sequential request budget
InitSeq ==
    /\ course_offerings = {}
    /\ offerings = {}
    /\ req = [c \in Clients |-> Idle]
    /\ quota = MaxReqs
    /\ pure = NoPure

\* concurrent clients: every statement of a batch is a step of its own
Next ==
    \E c \in Clients :
        \/ \E rows \in Batches(RaceRows, 1) : CommitStart(c, rows, FALSE)
        \/ CommitSuggested(c)
        \/ \E b \in RaceCreates : CreateCheck(c, b)
        \/ \E b \in RacePatches : PatchRead(c, b)
        \/ \E b \in RaceSuggests : Suggest(c, b)
        \/ CommitRow(c)
        \/ CommitInsert(c)
        \/ CreateInsert(c)
        \/ PatchCheck(c)
        \/ PatchUpdate(c)

Spec == Init /\ [][Next]_vars

\* one client: the requests run one at a time, each to its answer
NextSeq ==
    \E c \in SeqClients :
        \/ \E rows \in Batches(RowSamples, MaxRows) : CommitStart(c, rows, FALSE)
        \/ \E b \in CreateSamples : CreateCheck(c, b)
        \/ \E b \in PatchSamples : PatchRead(c, b)
        \/ CommitRow(c)
        \/ CommitInsert(c)
        \/ CreateInsert(c)
        \/ PatchCheck(c)
        \/ PatchUpdate(c)

SpecSeq == InitSeq /\ [][NextSeq]_vars

(***************************************************************************)
(* POST /rooms/check next to the write paths, one request at a time.       *)
(***************************************************************************)
CheckSamples ==
    { CheckBody(1, 0, NULL, Str(T0800), Str(T0900), NULL),
      CheckBody(1, 0, NULL, Str(T0900), Str(T1000), NULL),
      CheckBody(1, 0, NULL, Num(600), Num(660), NULL),
      CheckBody(1, 0, NULL, Num(600), Num(660), 1),
      CheckBody(1, 0, NULL, Str(T0900), Str(T1000), 2),
      CheckBody(1, 0, NULL, Str(T0800), Str(T2500), NULL),
      CheckBody(1, 0, NULL, Num(600), Num(1500), NULL),
      CheckBody(1, 7, NULL, Str(T0800), Str(T0900), NULL),
      CheckBody(1, 0, 1, Absent, Absent, NULL),
      CheckBody(1, 0, 2, Absent, Absent, NULL),
      CheckBody(1, 1, NULL, Str(T0800), Str(T0900), NULL),
      CheckBody(2, 0, NULL, Str(T0800), Str(T0900), NULL),
      CheckBody(3, 0, NULL, Str(T0800), Str(T0900), NULL),
      CheckBody(NULL, 0, NULL, Str(T0800), Str(T0900), NULL),
      CheckBody(1, 0, NULL, Str(T0900), Str(T0800), NULL),
      CheckBody(1, 0, NULL, Str(T0800), Absent, NULL) }

InitCheck ==
    /\ course_offerings = {}
    /\ offerings \in SUBSET OfferingSamples
    /\ req = [c \in Clients |-> Idle]
    /\ quota = MaxReqs
    /\ pure = NoPure

NextCheck ==
    \E c \in SeqClients :
        \/ \E rows \in Batches(RaceRows, 1) : CommitStart(c, rows, FALSE)
        \/ CommitRow(c)
        \/ CommitInsert(c)
        \/ \E b \in RaceCreates : CreateCheck(c, b)
        \/ CreateInsert(c)
        \/ \E b \in CheckSamples : Check(c, b)

SpecCheck == InitCheck /\ [][NextCheck]_vars

(***************************************************************************)
(* POST /scheduler/check asked by two clients, next to creates.            *)
(***************************************************************************)
RecheckSamples ==
    { CheckBody(1, 0, NULL, Num(600), Num(660), NULL),
      CheckBody(1, 0, NULL, Num(600), Num(660), 1),
      CheckBody(1, 0, NULL, Str(T0900), Str(T1000), NULL),
      CheckBody(1, 0, 1, Absent, Absent, NULL),
      CheckBody(1, 0, NULL, Str(T2500), Str(T0900), NULL) }

InitRecheck ==
    /\ course_offerings = {}
    /\ offerings \in SUBSET OfferingSamples
    /\ req = [c \in Clients |-> Idle]
    /\ quota = MaxRaceReqs
    /\ pure = NoPure

NextRecheck ==
    \E c \in Clients :
        \/ \E b \in RecheckSamples : Check(c, b)
        \/ \E b \in RaceCreates : CreateCheck(c, b)
        \/ CreateInsert(c)

SpecRecheck == InitRecheck /\ [][NextRecheck]_vars

(***************************************************************************)
(* POST /scheduler/suggest asked by two clients, next to creates.          *)
(***************************************************************************)
\* bookings of room 1 on day 0: 08:00-09:00 and 08:30:30-09:00:30
SuggestCreates ==
    { CreateBody(1, 1, 0, T0800, T0900, NULL),
      CreateBody(1, 1, 0, T083030, TNone, 30) }

SuggestSamples ==
    { SuggestBody(<<1, 2>>, 0, 0, T0800, T1000, 60, <<>>),
      SuggestBody(<<1>>, 0, 0, T0800, T1000, 60, <<>>),
      SuggestBody(<<1, 1, 1>>, 0, 0, T0800, T0900, 60, <<1>>),
      SuggestBody(<<1, 2>>, 0, 0, T0800, T0900, 60, <<1, 2>>),
      SuggestBody(<<1>>, 0, 0, T0800, T0900, 60, <<1, 2>>),
      SuggestBody(<<1, 2>>, 0, 1, T0800, T0900, 60, <<1>>),
      SuggestBody(<<1>>, 0, 0, T0800, T1000, NULL, <<>>),
      SuggestBody(<<1>>, 0, 0, T0800, T1000, 0, <<>>),
      SuggestBody(<<1>>, 0, 0, T0800, T1000, 601, <<>>),
      SuggestBody(<<1>>, 0, 0, T0800, T1000, -5, <<>>),
      SuggestBody(<<1>>, 0, 7, T0800, T1000, 60, <<>>),
      SuggestBody(<<1>>, -2, 0, T0800, T1000, 60, <<>>),
      SuggestBody(<<1>>, 2, 1, T0800, T1000, 60, <<>>),
      SuggestBody(<<1>>, 0, 0, T0900, T0800, 60, <<>>),
      SuggestBody(<<1>>, 0, 0, T0800, T0800, 60, <<>>),
      SuggestBody(<<1>>, 0, 0, T0800, T2500, 60, <<>>),
      SuggestBody(<<1>>, 0, 0, T083030, T1000, 60, <<>>),
      SuggestBody(<<1>>, 0, 0, TNone, T1000, 60, <<>>),
      SuggestBody(<<>>, 0, 0, T0800, T1000, 60, <<>>),
      SuggestBody(<<1>>, 0, 0, T0800, T1000, 60, <<3>>),
      SuggestBody(<<1, 1, 1>>, 0, 0, T0800, T1000, 60, <<1>>) }

InitSuggest ==
    /\ course_offerings = {}
    /\ offerings = {}
    /\ req = [c \in Clients |-> Idle]
    /\ quota = MaxSuggestReqs
    /\ pure = NoPure

NextSuggest ==
    \E c \in Clients :
        \/ \E b \in SuggestSamples : Suggest(c, b)
        \/ \E b \in SuggestCreates : CreateCheck(c, b)
        \/ CreateInsert(c)

SpecSuggest == InitSuggest /\ [][NextSuggest]_vars

(***************************************************************************)
(* One client whose requests name terms, sections, groups, courses and     *)
(* rooms that the tables hold or do not hold.                              *)
(***************************************************************************)
RefRows ==
    { WithRefs(CommitRowObj(1, 1, 0, T0800, T0900, NULL), 1, 1, 1),
      CommitRowObj(2, 1, 0, T0900, T1000, NULL),
      CommitRowObj(1, 3, 0, T0900, T1000, NULL),
      WithRefs(CommitRowObj(1, 2, 0, T0800, T0900, NULL), 2, NULL, NULL) }

RefCreates ==
    { WithRefs(CreateBody(1, 1, 0, T0800, T0900, 60), 1, 1, 1),
      CreateBody(1, 1, 0, T0900, T1000, NULL),
      CreateBody(2, 1, 0, T0900, T1000, NULL),
      CreateBody(1, 3, 0, T0900, T1000, NULL),
      WithRefs(CreateBody(1, 2, 0, T0800, T0900, NULL), 2, NULL, NULL),
      WithRefs(CreateBody(1, 2, 0, T0800, T0900, NULL), NULL, 2, NULL),
      WithRefs(CreateBody(1, 2, 0, T0800, T0900, NULL), NULL, NULL, 2) }

RefPatches ==
    { PatchBody(1, NULL, NULL, TNone, TNone, 30),
      PatchBody(1, NULL, NULL, T0830, TNone, NULL),
      PatchBody(1, NULL, NULL, TNone, T0930, NULL),
      PatchBody(1, 2, NULL, TNone, TNone, NULL),
      PatchBody(1, NULL, 1, TNone, TNone, NULL),
      PatchBody(1, 3, NULL, TNone, TNone, NULL),
      WithRefs(PatchBody(1, NULL, NULL, TNone, TNone, NULL), 1, NULL, NULL),
      WithRefs(PatchBody(1, NULL, NULL, TNone, TNone, NULL), NULL, 1, 1),
      WithRefs(PatchBody(1, NULL, NULL, TNone, TNone, NULL), 2, NULL, NULL),
      WithRefs(PatchBody(1, NULL, NULL, TNone, TNone, NULL), NULL, 2, NULL),
      WithRefs(PatchBody(1, NULL, NULL, TNone, TNone, NULL), NULL, NULL, 2) }

InitRefs ==
    /\ course_offerings = {}
    /\ offerings = {}
    /\ req = [c \in Clients |-> Idle]
    /\ quota = MaxReqs
    /\ pure = NoPure

NextRefs ==
    \E c \in SeqClients :
        \/ \E rows \in Batches(RefRows, MaxRows) : CommitStart(c, rows, FALSE)
        \/ \E b \in RefCreates : CreateCheck(c, b)
        \/ \E b \in RefPatches : PatchRead(c, b)
        \/ CommitRow(c)
        \/ CommitInsert(c)
        \/ CreateInsert(c)
        \/ PatchCheck(c)
        \/ PatchUpdate(c)

SpecRefs == InitRefs /\ [][NextRefs]_vars

(***************************************************************************)
(* The interval lists on their own: the lists are built from the booked    *)
(* rows of one bookings table, then placements are reserved one by one.    *)
(***************************************************************************)
\* bookings before, across, inside and after the work windows below, one of
\* them stored with seconds, in two rooms
IntervalRows ==
    { Offering(1, 1, 1, 0, 7 * 3600, 7 * 3600 + 1800, 30, "create"),
      Offering(2, 1, 1, 0, 7 * 3600 + 1800, 8 * 3600 + 1800, 60, "create"),
      Offering(3, 1, 1, 0, 9 * 3600, 10 * 3600, 60, "create"),
      Offering(4, 1, 1, 0, 10 * 3600 + 1800, 11 * 3600 + 1800, 60, "create"),
      Offering(5, 1, 1, 0, 11 * 3600 + 1800, 12 * 3600, 30, "create"),
      Offering(6, 1, 1, 0, 8 * 3600 + 1830, 9 * 3600, 30, "create"),
      Offering(7, 1, 2, 0, 9 * 3600 + 1800, 12 * 3600, 150, "create") }

\* work windows in minutes (the parsed work_start and work_end)
IntervalWindows == {<<480, 660>>, <<540, 600>>}

InitIntervals ==
    /\ course_offerings = {}
    /\ offerings = {}
    /\ req = [c \in Clients |-> Idle]
    /\ quota = 0
    /\ pure \in [op : {"intervals"}, stage : {"rows"},
                 table : SUBSET IntervalRows, window : IntervalWindows,
                 dur : {30, 60}, used : {<<>>}, placed : {0}]

\* the availability map is built from the booked rows and copied into used
BuildIntervals ==
    /\ pure.op = "intervals" /\ pure.stage = "rows"
    /\ pure' = [pure EXCEPT
          !.stage = "listed",
          !.used = UsedInit(pure.table, RoomTable, 0, 0,
                            pure.window[1], pure.window[2])]
    /\ UNCHANGED <<course_offerings, offerings, req, quota>>

\* one turn of the greedy loop: the first fit is pushed into used
PlaceInterval ==
    /\ pure.op = "intervals" /\ pure.stage = "listed"
    /\ LET chosen == FirstFit(pure.used, RoomTable, 0, 0, pure.window[1],
                              pure.window[2], pure.dur, 0)
       IN  /\ chosen.placed
           /\ pure' = [pure EXCEPT
                 !.placed = @ + 1,
                 !.used = Reserve(pure.used, chosen.room_id, chosen.day_of_week,
                                  chosen.start, chosen.end)]
    /\ UNCHANGED <<course_offerings, offerings, req, quota>>

NextIntervals == BuildIntervals \/ PlaceInterval

SpecIntervals == InitIntervals /\ [][NextIntervals]_vars

(***************************************************************************)
(* The time helpers on their own: a text is parsed, a minute is formatted  *)
(* and parsed back.                                                        *)
(***************************************************************************)
\* hh:mm and hh:mm:ss texts with parts in and out of range, h:mm, and texts
\* of another shape
TimeTexts ==
    {Pad2(h) \o <<":">> \o Pad2(m) : h \in {0, 8, 23, 24}, m \in {0, 30, 59, 60}}
    \cup {Pad2(h) \o <<":">> \o Pad2(m) \o <<":">> \o Pad2(x) :
              h \in {8, 24}, m \in {30, 60}, x \in {0, 30, 60}}
    \cup {T900, TNone, <<" ">> \o T0800 \o <<" ">>, <<"0", "8", "0", "0">>,
          <<"0", "8", ":", "0">>, <<"a", "b", ":", "c", "d">>}

InitTime ==
    /\ course_offerings = {}
    /\ offerings = {}
    /\ req = [c \in Clients |-> Idle]
    /\ quota = 0
    /\ pure \in [op : {"parse"}, applied : {FALSE}, text : TimeTexts,
                 minute : {0}, out : {NULL}]
                \cup [op : {"format"}, applied : {FALSE}, text : {<<>>},
                      minute : 0..((DaySeconds \div 60) - 1), out : {NULL}]

\* parseHHMM(text), or mmToHHMM(minute) and parseHHMM of it
ApplyTime ==
    /\ pure.op \in {"parse", "format"} /\ ~pure.applied
    /\ pure' = [pure EXCEPT
          !.applied = TRUE,
          !.out = IF pure.op = "parse" THEN parseHHMM(pure.text)
                  ELSE [text |-> mmToHHMM(pure.minute),
                        back |-> parseHHMM(mmToHHMM(pure.minute))]]
    /\ UNCHANGED <<course_offerings, offerings, req, quota>>

NextTime == ApplyTime

SpecTime == InitTime /\ [][NextTime]_vars

(***************************************************************************)
(* The conflict predicates on their own: two intervals are drawn and both  *)
(* forms are applied to them, in both orders.                              *)
(***************************************************************************)
Ticks == 0..MaxTick

InitOverlap ==
    /\ course_offerings = {}
    /\ offerings = {}
    /\ req = [c \in Clients |-> Idle]
    /\ quota = 0
    /\ pure \in [op : {"overlaps"}, applied : {FALSE},
                 a : [s : Ticks, e : Ticks], b : [s : Ticks, e : Ticks],
                 sql : {FALSE}, neg : {FALSE}, sqlRev : {FALSE}, negRev : {FALSE}]

ApplyOverlap ==
    /\ pure.op = "overlaps" /\ ~pure.applied
    /\ pure' = [pure EXCEPT
          !.applied = TRUE,
          !.sql = SqlOverlap(pure.a.s, pure.a.e, pure.b.s, pure.b.e),
          !.neg = CheckOverlap(pure.a.s, pure.a.e, pure.b.s, pure.b.e),
          !.sqlRev = SqlOverlap(pure.b.s, pure.b.e, pure.a.s, pure.a.e),
          !.negRev = CheckOverlap(pure.b.s, pure.b.e, pure.a.s, pure.a.e)]
    /\ UNCHANGED <<course_offerings, offerings, req, quota>>

NextOverlap == ApplyOverlap

SpecOverlap == InitOverlap /\ [][NextOverlap]_vars

(***************************************************************************)
(* Properties.                                                             *)
(***************************************************************************)
\* B1.end <= B2.start OR B2.end <= B1.start
Disjoint(x, y) == x.end_time <= y.start_time \/ y.end_time <= x.start_time

SameRoomDay(x, y) ==
    /\ x.primary_room_id # NULL
    /\ x.primary_room_id = y.primary_room_id
    /\ x.day_of_week = y.day_of_week

\* a commit row that passes the per-row validation, and its interval in seconds
RowValid(row) ==
    /\ row.course_id # NULL /\ row.course_id # 0 /\ row.room_id # NULL
    /\ row.day_of_week \in 0..6
    /\ parseHHMM(row.start_time).ok /\ parseHHMM(row.end_time).ok
    /\ parseHHMM(row.start_time).val < parseHHMM(row.end_time).val

RowStart(row) == parseHHMM(row.start_time).val * 60

RowEnd(row) == parseHHMM(row.end_time).val * 60

\* the row's interval overlaps booking o of the same room and day
RowOverlaps(row, o) ==
    /\ o.primary_room_id = row.room_id
    /\ o.day_of_week = row.day_of_week
    /\ ~(o.end_time <= RowStart(row) \/ o.start_time >= RowEnd(row))

RowsOverlap(r1, r2) ==
    /\ r1.room_id = r2.room_id
    /\ r1.day_of_week = r2.day_of_week
    /\ ~(RowEnd(r1) <= RowStart(r2) \/ RowStart(r1) >= RowEnd(r2))

ConflictReason == "Room already booked at this day/time"

\* C1: under concurrent Commit calls the bookings created by commit rows are
\* pairwise non-overlapping within a room and day (of two overlapping commit
\* attempts at most one is persisted).
C1_CommitsNeverOverlap ==
    \A x, y \in course_offerings :
        (x.id # y.id /\ x.via = "commit" /\ y.via = "commit" /\ SameRoomDay(x, y))
            => Disjoint(x, y)

\* C2: with the write requests (commit batches, creates, updates) run one at
\* a time, any two persisted bookings of the same room and day are disjoint.
C2_NoOverlapSequential ==
    \A x, y \in course_offerings :
        (x.id # y.id /\ SameRoomDay(x, y)) => Disjoint(x, y)

\* C2 witness: two bookings share a room and a day, one of them moved there
\* by an update.
C2_Witness ==
    \E x, y \in course_offerings :
        /\ x.id # y.id /\ SameRoomDay(x, y)
        /\ x.via = "patch"
        /\ x.start_time < x.end_time /\ y.start_time < y.end_time

\* C3: a booking written by an update never overlaps another booking of its
\* room and day, also when the update races with another writer.
C3_UpdatesNeverOverlap ==
    \A x, y \in course_offerings :
        (x.id # y.id /\ x.via = "patch" /\ SameRoomDay(x, y)) => Disjoint(x, y)

\* the interval a single create asks for, in seconds: from start_time to
\* end_time, or to start_time plus duration_minutes
CreateStart(b) == SqlTime(NormalizeTimeStr(b.start_time)).val

CreateEnd(b) ==
    IF b.end_time # <<>> THEN SqlTime(NormalizeTimeStr(b.end_time)).val
    ELSE CreateStart(b) + b.duration_minutes * 60

\* the request of a single create names a room, a day and an interval of the day
CreateTargets(b) ==
    /\ b.course_id \in CourseTable /\ b.primary_room_id \in RoomIds
    /\ b.day_of_week \in 0..6
    /\ b.start_time # <<>> /\ SqlTime(NormalizeTimeStr(b.start_time)).ok
    /\ IF b.end_time # <<>>
       THEN /\ SqlTime(NormalizeTimeStr(b.end_time)).ok
            /\ b.duration_minutes = NULL \/ b.duration_minutes \in 1..600
       ELSE b.duration_minutes \in 1..600
    /\ CreateStart(b) < CreateEnd(b) /\ CreateEnd(b) <= DaySeconds

\* C4: a commit row or a single create whose room, day and interval overlap a
\* persisted booking is answered with the room conflict and leaves the
\* persisted bookings exactly as they were.
C4_ConflictAborts ==
    [][\A c \in SeqClients :
          /\ ( /\ req[c].kind = "commit" /\ req[c].stage = "row"
               /\ RowValid(req[c].body[req[c].idx])
               /\ \E o \in course_offerings : RowOverlaps(req[c].body[req[c].idx], o)
               /\ req'[c] # req[c] )
             => /\ course_offerings' = course_offerings
                /\ Len(req'[c].results) = req[c].idx
                /\ ~req'[c].results[req[c].idx].ok
                /\ req'[c].results[req[c].idx].reason = ConflictReason
                /\ req'[c].results[req[c].idx].offering_id = NULL
          /\ ( /\ quota' # quota /\ req'[c].kind = "create"
               /\ CreateTargets(req'[c].body)
               /\ \E o \in course_offerings :
                     /\ o.primary_room_id = req'[c].body.primary_room_id
                     /\ o.day_of_week = req'[c].body.day_of_week
                     /\ ~(\/ o.end_time <= CreateStart(req'[c].body)
                          \/ o.start_time >= CreateEnd(req'[c].body)) )
             => /\ course_offerings' = course_offerings
                /\ req'[c].stage = "done"
                /\ req'[c].resp = ErrorResp(409, ConflictReason)
      ]_vars

\* C4 witness: a commit row has been refused with the room conflict.
C4_Witness ==
    \E c \in SeqClients :
        /\ req[c].kind = "commit"
        /\ \E i \in 1..Len(req[c].results) :
              /\ req[c].results[i].reason = ConflictReason
              /\ \E o \in course_offerings : RowOverlaps(req[c].body[i], o)

\* a commit of suggestions has been answered with its per-row results
CommittedSuggestions(c) ==
    /\ req[c].kind = "commit" /\ req[c].suggested
    /\ req[c].stage = "done" /\ req[c].resp.status = 200

\* C5: when two Suggest calls read the same persisted bookings and propose
\* overlapping intervals for a room and day, and both proposals are
\* committed, exactly one of the two rows is created and the other is
\* refused with the room conflict.
C5_StaleSuggestionsExclusive ==
    \A c1, c2 \in Clients :
        (c1 # c2 /\ CommittedSuggestions(c1) /\ CommittedSuggestions(c2)
                 /\ req[c1].snap = req[c2].snap)
        => \A i \in 1..Len(req[c1].body), j \in 1..Len(req[c2].body) :
              RowsOverlap(req[c1].body[i], req[c2].body[j])
              => LET r1 == req[c1].resp.results[i]
                     r2 == req[c2].resp.results[j]
                 IN  \/ (r1.ok /\ ~r2.ok /\ r2.reason = ConflictReason)
                     \/ (r2.ok /\ ~r1.ok /\ r1.reason = ConflictReason)

\* C6: a commit of a non-empty batch answers with exactly one result per
\* row, in input order, and created + failed counts them all.
C6_OneResultPerRow ==
    \A c \in SeqClients :
        (req[c].kind = "commit" /\ req[c].stage = "done" /\ Len(req[c].body) > 0)
        => /\ req[c].resp.status = 200
           /\ Len(req[c].resp.results) = Len(req[c].body)
           /\ \A i \in 1..Len(req[c].body) :
                 req[c].resp.results[i].row = req[c].body[i]
           /\ req[c].resp.created = CountOk(req[c].resp.results)
           /\ req[c].resp.failed = CountFailed(req[c].resp.results)
           /\ req[c].resp.created + req[c].resp.failed = Len(req[c].body)

\* the bookings row i of a batch is checked against (requests run one at a
\* time): those persisted when the batch arrived and those created by the
\* earlier rows
SeenByRow(r, i) ==
    r.base \cup {o \in course_offerings :
                    \E k \in 1..(i - 1) :
                        r.resp.results[k].ok /\ r.resp.results[k].offering_id = o.id}

\* C7: rows of a batch are applied in input order against the bookings
\* persisted so far: of two valid rows with overlapping intervals in a room
\* and day, the earlier one conflicting with nothing persisted before it,
\* the earlier is created with a new booking id and the later is refused
\* with the room conflict; a batch of just these two rows reports created 1
\* and failed 1.
C7_EarlierRowWins ==
    \A c \in SeqClients :
        (req[c].kind = "commit" /\ req[c].stage = "done" /\ req[c].resp.status = 200)
        => \A i, j \in 1..Len(req[c].body) :
              ( /\ i < j
                /\ RowValid(req[c].body[i]) /\ RowValid(req[c].body[j])
                /\ RowsOverlap(req[c].body[i], req[c].body[j])
                /\ ~\E o \in SeenByRow(req[c], i) : RowOverlaps(req[c].body[i], o) )
              => /\ req[c].resp.results[i].ok
                 /\ req[c].resp.results[i].offering_id \notin {NULL} \cup {o.id : o \in req[c].base}
                 /\ \E o \in course_offerings :
                       /\ o.id = req[c].resp.results[i].offering_id
                       /\ o.start_time = RowStart(req[c].body[i])
                       /\ o.end_time = RowEnd(req[c].body[i])
                 /\ ~req[c].resp.results[j].ok
                 /\ req[c].resp.results[j].reason = ConflictReason
                 /\ (Len(req[c].body) = 2
                       => req[c].resp.created = 1 /\ req[c].resp.failed = 1)

\* C7 witness: a batch of two overlapping rows has been answered, the first
\* created and the second refused.
C7_Witness ==
    \E c \in SeqClients :
        /\ req[c].kind = "commit" /\ req[c].stage = "done"
        /\ req[c].resp.status = 200 /\ Len(req[c].body) = 2
        /\ RowValid(req[c].body[1]) /\ RowValid(req[c].body[2])
        /\ RowsOverlap(req[c].body[1], req[c].body[2])
        /\ req[c].body[1] # req[c].body[2]
        /\ req[c].resp.results[1].ok /\ ~req[c].resp.results[2].ok
        /\ req[c].resp.created = 1 /\ req[c].resp.failed = 1

\* C8: a commit that ends in an error response instead of per-row results
\* has persisted no booking.
C8_ErrorAppliesNothing ==
    \A c \in SeqClients :
        (req[c].kind = "commit" /\ req[c].stage = "done" /\ req[c].resp.status # 200)
        => course_offerings = req[c].base

\* C9: Check answers against the persisted bookings: once a commit or create
\* has persisted a booking, a Check of an interval that overlaps a persisted
\* booking of the room and day reports free:false with a conflict naming
\* such a booking (so free:true is reported only when none overlaps).
C9_CheckSeesBookings ==
    \A c \in SeqClients :
        (req[c].kind = "check" /\ req[c].resp.status = 200
            /\ req[c].body.exclude_offering_id = NULL)
        => LET s == req[c].resp.normalized.start_minute * 60
               e == req[c].resp.normalized.end_minute * 60
               hits == {o \in course_offerings :
                           /\ o.primary_room_id = req[c].body.room_id
                           /\ o.day_of_week = req[c].body.day_index
                           /\ ~(o.end_time <= s \/ o.start_time >= e)}
           IN  hits # {}
                  => /\ ~req[c].resp.free
                     /\ \E o \in hits : o.id = req[c].resp.conflict.offering_id

\* C11: a Check that excludes booking X answers against every other booking:
\* when a persisted booking other than X overlaps the asked interval in the
\* room and day, it reports free:false with a conflict naming such a booking,
\* and the conflict it reports is never X.
C11_CheckExcludeOnly ==
    \A c \in SeqClients :
        (req[c].kind = "check" /\ req[c].resp.status = 200
            /\ req[c].body.exclude_offering_id # NULL)
        => LET X == req[c].body.exclude_offering_id
               s == req[c].resp.normalized.start_minute * 60
               e == req[c].resp.normalized.end_minute * 60
               others == {o \in course_offerings :
                             /\ o.id # X
                             /\ o.primary_room_id = req[c].body.room_id
                             /\ o.day_of_week = req[c].body.day_index
                             /\ ~(o.end_time <= s \/ o.start_time >= e)}
           IN  /\ ~req[c].resp.free => req[c].resp.conflict.offering_id # X
               /\ others # {}
                     => /\ ~req[c].resp.free
                        /\ \E o \in others :
                              o.id = req[c].resp.conflict.offering_id

\* two answered Checks with the same arguments, between which neither table
\* changed, gave the same result
SameCheckSameAnswer ==
    \A c, d \in Clients :
        (/\ req[c].kind = "check" /\ req[d].kind = "check"
         /\ req[c].body = req[d].body
         /\ req[c].base = req[d].base /\ req[c].snap = req[d].snap)
        => req[c].resp = req[d].resp

\* a step in which a Check is answered
CheckAnswered ==
    /\ quota' = quota - 1
    /\ \E c \in Clients :
          /\ req'[c].kind = "check"
          /\ \A d \in Clients \ {c} : req'[d] = req[d]

SuggestOk(c) == req[c].kind = "suggest" /\ req[c].resp.status = 200

\* a step in which a Suggest call is answered
SuggestAnswered ==
    /\ quota' = quota - 1
    /\ \E c \in Clients :
          /\ req'[c].kind = "suggest"
          /\ \A d \in Clients \ {c} : req'[d] = req[d]

\* two Suggest calls with the same arguments (and one possible order of the
\* candidate rooms) that read the same bookings propose the same placements:
\* nothing reserved by one call is seen by the other
SuggestSeesOnlyBookings ==
    \A c, d \in Clients :
        (/\ SuggestOk(c) /\ SuggestOk(d)
         /\ req[c].body = req[d].body /\ req[c].snap = req[d].snap
         /\ Len(req[c].body.room_ids) <= 1)
        => req[c].resp.suggestions = req[d].resp.suggestions

\* C13: Suggest performs no persistent write: answering a Suggest call leaves
\* the persisted bookings unchanged, and the placements a call reserved are
\* not seen by another call that reads the same bookings.
C13_SuggestWritesNothing ==
    /\ []SuggestSeesOnlyBookings
    /\ [][SuggestAnswered => (course_offerings' = course_offerings
                                /\ offerings' = offerings)]_vars

\* C13 witness: with a booking persisted, both clients were given a placement
\* by the same Suggest call on the current bookings.
C13_Witness ==
    /\ SuggestOk(1) /\ SuggestOk(2)
    /\ req[1].body = req[2].body
    /\ req[1].snap = course_offerings /\ req[2].snap = course_offerings
    /\ course_offerings # {}
    /\ req[1].resp.suggestions[1].ok

\* minutes from midnight of an HH:MM string of a response or a request
Mins(t) == parseHHMM(t).val

\* C14: every ok:true suggestion is feasible against the bookings the call
\* read: its room is a candidate room, its day is within the day range, it
\* lasts slot_minutes, lies in the work window and overlaps no booking of its
\* room and day.
C14_SuggestionsFeasible ==
    \A c \in Clients :
        SuggestOk(c)
        => \A i \in 1..Len(req[c].resp.suggestions) :
             LET x == req[c].resp.suggestions[i]
                 b == req[c].body
                 st == Mins(x.start_time)
                 en == Mins(x.end_time)
             IN  x.ok
                 => /\ x.room_id \in RoomIds
                    /\ (b.room_ids # <<>> => x.room_id \in SeqToSet(b.room_ids))
                    /\ x.day_of_week \in b.day_start..b.day_end
                    /\ en - st = req[c].resp.slot_minutes
                    /\ Mins(b.work_start) <= st /\ st < en
                    /\ en <= Mins(b.work_end)
                    /\ \A o \in req[c].snap :
                         (o.primary_room_id = x.room_id
                              /\ o.day_of_week = x.day_of_week)
                         => (o.end_time <= st * 60 \/ en * 60 <= o.start_time)

\* C15: no two ok:true suggestions of one response overlap in the same room
\* and day.
C15_SuggestionsDisjoint ==
    \A c \in Clients :
        SuggestOk(c)
        => \A i, j \in 1..Len(req[c].resp.suggestions) :
             LET x == req[c].resp.suggestions[i]
                 y == req[c].resp.suggestions[j]
             IN  (i < j /\ x.ok /\ y.ok /\ x.room_id = y.room_id
                        /\ x.day_of_week = y.day_of_week)
                 => \/ Mins(x.end_time) <= Mins(y.start_time)
                    \/ Mins(y.end_time) <= Mins(x.start_time)

\* C15 witness: a response places the same course twice, in the same room
\* and day.
C15_Witness ==
    \E c \in Clients :
        /\ SuggestOk(c)
        /\ \E i, j \in 1..Len(req[c].resp.suggestions) :
             LET x == req[c].resp.suggestions[i]
                 y == req[c].resp.suggestions[j]
             IN  /\ i < j /\ x.ok /\ y.ok
                 /\ x.room_id = y.room_id /\ x.day_of_week = y.day_of_week

\* the request passes the validation of the handler and finds a room
SuggestAccepted(b) ==
    /\ b.course_ids # <<>>
    /\ b.day_start >= 0 /\ b.day_end <= 6 /\ b.day_start <= b.day_end
    /\ parseHHMM(b.work_start).ok /\ parseHHMM(b.work_end).ok
    /\ Mins(b.work_start) < Mins(b.work_end)
    /\ b.slot_minutes = NULL \/ (b.slot_minutes > 0 /\ b.slot_minutes <= 600)
    /\ b.room_ids = <<>> \/ SeqToSet(b.room_ids) \cap RoomIds # {}

\* C16: Suggest answers with one suggestion per entry of course_ids, in the
\* order of course_ids, also when a course cannot be placed: an accepted
\* request is answered with the list, whatever was placed.
C16_OneSuggestionPerCourse ==
    \A c \in Clients :
        (req[c].kind = "suggest" /\ SuggestAccepted(req[c].body))
        => /\ req[c].resp.status = 200
           /\ Len(req[c].resp.suggestions) = Len(req[c].body.course_ids)
           /\ \A i \in 1..Len(req[c].body.course_ids) :
                req[c].resp.suggestions[i].course_id = req[c].body.course_ids[i]

\* C16 witness: a course that could not be placed is followed by an entry
\* for a later course.
C16_Witness ==
    \E c \in Clients :
        /\ SuggestOk(c)
        /\ \E i \in 1..Len(req[c].resp.suggestions) :
             /\ ~req[c].resp.suggestions[i].ok
             /\ i < Len(req[c].resp.suggestions)

\* C17: two Suggest calls with identical inputs that read identical bookings
\* return identical suggestion lists.
C17_SuggestDeterministic ==
    \A c, d \in Clients :
        (/\ SuggestOk(c) /\ SuggestOk(d)
         /\ req[c].body = req[d].body /\ req[c].snap = req[d].snap)
        => req[c].resp.suggestions = req[d].resp.suggestions

\* body p asks for a prefix of the courses of body b, all else equal
IsPrefixBody(p, b) ==
    /\ Len(p.course_ids) <= Len(b.course_ids)
    /\ p.course_ids = SubSeq(b.course_ids, 1, Len(p.course_ids))
    /\ [p EXCEPT !.course_ids = <<>>] = [b EXCEPT !.course_ids = <<>>]

\* C18: the suggestions of a call for the first k courses are the first k
\* suggestions of the call for all courses, on the same bookings.
C18_PrefixIndependent ==
    \A c, d \in Clients :
        (/\ SuggestOk(c) /\ SuggestOk(d)
         /\ IsPrefixBody(req[d].body, req[c].body)
         /\ req[c].snap = req[d].snap)
        => req[d].resp.suggestions =
              SubSeq(req[c].resp.suggestions, 1, Len(req[d].body.course_ids))

\* C19: a supplied slot_minutes outside (0, 600] is rejected before any
\* storage query, as an invalid duration when nothing else is wrong, and an
\* answered call uses 90 minutes only when slot_minutes was omitted.
C19_SlotMinutesValidated ==
    \A c \in Clients :
        req[c].kind = "suggest"
        => LET b == req[c].body
               supplied == b.slot_minutes # NULL
               outside == b.slot_minutes <= 0 \/ b.slot_minutes > 600
           IN  /\ (supplied /\ outside)
                    => /\ req[c].resp.status # 200
                       /\ req[c].queries = 0
                       /\ SuggestAccepted([b EXCEPT !.slot_minutes = NULL])
                            => req[c].resp.error =
                                  "slot_minutes out of range (1..600)"
               /\ req[c].resp.status = 200
                    => req[c].resp.slot_minutes =
                          (IF supplied THEN b.slot_minutes ELSE 90)

\* a time string of hours 0..23 and minutes 0..59
TimeInRange(t) ==
    LET m == MatchHM(Trim(t)) IN m.ok /\ m.h <= 23 /\ m.m <= 59

\* the minutes of such a string
TimeMinutes(t) == LET m == MatchHM(Trim(t)) IN m.h * 60 + m.m

\* the request is one the validation must reject
SuggestInvalid(b) ==
    \/ b.course_ids = <<>>
    \/ b.day_start < 0 \/ b.day_end > 6 \/ b.day_start > b.day_end
    \/ ~TimeInRange(b.work_start) \/ ~TimeInRange(b.work_end)
    \/ TimeMinutes(b.work_end) <= TimeMinutes(b.work_start)

\* C20: a request with a bad day range, a bad or malformed work window or no
\* course is rejected before any storage query and without suggestions; a
\* request that names no existing room fails with the no-rooms error.
C20_SuggestValidation ==
    \A c \in Clients :
        req[c].kind = "suggest"
        => LET b == req[c].body IN
           /\ SuggestInvalid(b)
                => /\ req[c].resp.status \in {400, 500}
                   /\ req[c].queries = 0
                   /\ "suggestions" \notin DOMAIN req[c].resp
           /\ (/\ ~SuggestInvalid(b)
               /\ b.slot_minutes > 0 /\ b.slot_minutes <= 600
               /\ b.room_ids # <<>> /\ SeqToSet(b.room_ids) \cap RoomIds = {})
                => /\ req[c].resp.status = 400
                   /\ req[c].resp.error = "No rooms found to schedule into"
                   /\ "suggestions" \notin DOMAIN req[c].resp

\* C20 witness: a request with a work end out of range, one with a reversed
\* day range and one that names no existing room have been rejected.
C20_Witness ==
    /\ req[1].kind = "suggest" /\ req[2].kind = "suggest"
    /\ req[1].resp.status # 200 /\ req[2].resp.status = 400
    /\ ~TimeInRange(req[1].body.work_end)
    /\ ~SuggestInvalid(req[2].body)
    /\ req[2].resp.error = "No rooms found to schedule into"

\* a time value of a Check body that is well formed and in range
CheckTimeValid(v) ==
    \/ v.t = "num" /\ v.v >= 0 /\ v.v <= 1440
    \/ v.t = "str" /\ TimeInRange(v.v)

\* C21: Check answers free or not-free only for well-formed input: times
\* with hour in 0..23 and minute in 0..59, an interval with start < end <=
\* 1440 and a day in 0..6; any other input is rejected.
C21_CheckRejectsBadInput ==
    \A c \in SeqClients :
        (req[c].kind = "check" /\ req[c].resp.status = 200)
        => LET b == req[c].body
               n == req[c].resp.normalized
           IN  /\ b.day_index \in 0..6
               /\ n.start_minute < n.end_minute /\ n.end_minute <= 1440
               /\ (b.time_slot_id = NULL \/ b.time_slot_id = 0)
                    => (CheckTimeValid(b.start_time) /\ CheckTimeValid(b.end_time))

\* hh:mm or hh:mm:ss (one or two digits of hours): the parts, or no match
MatchHMS(t) ==
    LET n == Len(t)
        hasSec == n >= 7 /\ t[n - 2] = ":" /\ IsDigit(t[n - 1]) /\ IsDigit(t[n])
        hm == MatchHM(IF hasSec THEN SubSeq(t, 1, n - 3) ELSE t)
    IN  [ok |-> hm.ok, h |-> hm.h, m |-> hm.m,
         s |-> IF hasSec THEN DigitVal(t[n - 1]) * 10 + DigitVal(t[n]) ELSE 0]

\* C22: the time parser accepts HH:MM and HH:MM:SS texts with hour in 0..23
\* and minute and second in 0..59 and returns hour * 60 + minute, fails with
\* the format error on any other shape and with the range error on a part
\* out of range; formatting a minute of 0..1439 and parsing it gives it back.
C22_ParseTime ==
    (pure.op \in {"parse", "format"} /\ pure.applied)
    => IF pure.op = "parse"
       THEN LET p == MatchHMS(Trim(pure.text))
                inRange == p.h <= 23 /\ p.m <= 59 /\ p.s <= 59
            IN  /\ pure.out.ok = (p.ok /\ inRange)
                /\ (p.ok /\ inRange) => pure.out.val = p.h * 60 + p.m
                /\ ~p.ok => pure.out.err = "Invalid time format, expected HH:MM"
                /\ (p.ok /\ ~inRange) => pure.out.err = "Invalid time range"
       ELSE pure.out.back.ok /\ pure.out.back.val = pure.minute

\* the bookings other than id that overlap the interval in the room and day
\* (a booking without a room is in no room)
OthersOverlapping(table, id, t) ==
    {o \in table : /\ o.id # id /\ t.room # NULL
                   /\ o.primary_room_id = t.room /\ o.day_of_week = t.day
                   /\ ~(o.end_time <= t.start \/ o.start_time >= t.end)}

\* an update that passed validation and was answered
PatchAnswered(c) ==
    /\ req[c].kind = "patch" /\ req[c].stage = "done"
    /\ req[c].resp.status \in {200, 409}

\* C23: an update of booking X succeeds iff no booking other than X in the
\* target room and day overlaps the new interval; X's own prior placement
\* never conflicts; on a conflict no booking changes, and on success no
\* booking other than X changes.
C23_UpdateExcludesSelf ==
    \A c \in SeqClients :
        PatchAnswered(c)
        => LET r == req[c]
               others == OthersOverlapping(r.base, r.body.id, r.tmp)
           IN  /\ (r.resp.status = 200) <=> (others = {})
               /\ r.resp.status = 409 => course_offerings = r.base
               /\ r.resp.status = 200
                    => /\ {o \in course_offerings : o.id # r.body.id}
                          = {o \in r.base : o.id # r.body.id}
                       /\ \E o \in course_offerings :
                             /\ o.id = r.body.id
                             /\ o.start_time = r.tmp.start
                             /\ o.end_time = r.tmp.end

\* an update succeeded on an interval that overlaps X's own prior placement
C23_Witness ==
    \E c \in SeqClients :
        /\ PatchAnswered(c) /\ req[c].resp.status = 200
        /\ LET r == req[c]
               x == RowById(r.base, r.body.id)
           IN  /\ x.primary_room_id = r.tmp.room /\ x.day_of_week = r.tmp.day
               /\ r.tmp.start < x.end_time /\ x.start_time < r.tmp.end
               /\ <<r.tmp.start, r.tmp.end>> # <<x.start_time, x.end_time>>

\* an update that succeeded: the fields it did not supply, end apart, keep
\* their prior value in the row, and no other row changed
PatchKeepsUnsupplied(c) ==
    LET r == req[c]
        b == r.body
        x == RowById(r.base, b.id)
        y == RowById(course_offerings, b.id)
    IN  /\ b.term_id = NULL => y.term_id = x.term_id
        /\ b.section_id = NULL => y.section_id = x.section_id
        /\ b.group_id = NULL => y.group_id = x.group_id
        /\ b.primary_room_id = NULL => y.primary_room_id = x.primary_room_id
        /\ b.day_of_week = NULL => y.day_of_week = x.day_of_week
        /\ b.start_time = <<>> => y.start_time = x.start_time
        /\ b.duration_minutes = NULL => y.duration_minutes = x.duration_minutes
        /\ y.course_id = x.course_id
        /\ {o \in course_offerings : o.id # b.id} = {o \in r.base : o.id # b.id}

PatchSucceeded(c) ==
    req[c].kind = "patch" /\ req[c].stage = "done" /\ req[c].resp.status = 200

\* the claim as stated: after a successful update every field that was not
\* supplied keeps its prior value, end included, also when duration is
\* supplied
C24_PartialUpdateKeepsEnd ==
    \A c \in SeqClients :
        PatchSucceeded(c)
        => /\ PatchKeepsUnsupplied(c)
           /\ req[c].body.end_time = <<>>
                => RowById(course_offerings, req[c].body.id).end_time
                     = RowById(req[c].base, req[c].body.id).end_time

\* C24: after a successful update that supplies a subset of room, day,
\* start, end, duration, term, section, group, every field that was not
\* supplied keeps its prior value, except that end becomes start plus
\* duration on the 24-hour clock when duration is supplied without end;
\* no other booking is modified.
C24_PartialUpdate ==
    \A c \in SeqClients :
        PatchSucceeded(c)
        => LET b == req[c].body
               x == RowById(req[c].base, b.id)
               y == RowById(course_offerings, b.id)
           IN  /\ PatchKeepsUnsupplied(c)
               /\ b.end_time = <<>>
                    => y.end_time =
                         IF b.duration_minutes = NULL THEN x.end_time
                         ELSE (y.start_time + b.duration_minutes * 60) % DaySeconds

\* an update that supplied only the duration succeeded and moved the end
C24_Witness ==
    \E c \in SeqClients :
        /\ PatchSucceeded(c)
        /\ LET b == req[c].body
               x == RowById(req[c].base, b.id)
               y == RowById(course_offerings, b.id)
           IN  /\ b.duration_minutes # NULL /\ b.end_time = <<>>
               /\ b.start_time = <<>> /\ b.primary_room_id = NULL
               /\ x.term_id # NULL /\ y.term_id = x.term_id
               /\ y.end_time # x.end_time

\* C25: every persisted booking satisfies 0 <= start < end <= 1440 minutes,
\* after commits, creates (end given or derived from start and duration)
\* and updates.
C25_IntervalWellFormed ==
    \A o \in course_offerings :
        /\ 0 <= o.start_time
        /\ o.start_time < o.end_time
        /\ o.end_time <= DaySeconds

\* C26: every persisted booking has duration = end - start, in minutes, and
\* 0 < duration <= 600, also for a commit row that supplies its own duration
\* and for an update that changes start or end without a duration.
C26_DurationConsistent ==
    \A o \in course_offerings :
        /\ o.duration_minutes # NULL
        /\ o.duration_minutes * 60 = o.end_time - o.start_time
        /\ 0 < o.duration_minutes /\ o.duration_minutes <= 600

\* the references of a booking that the tables hold
OfferingRefsKnown(o) ==
    /\ o.course_id \in CourseTable
    /\ o.primary_room_id = NULL \/ o.primary_room_id \in RoomIds
    /\ o.term_id = NULL \/ o.term_id \in TermTable
    /\ o.section_id = NULL \/ o.section_id \in SectionTable
    /\ o.group_id = NULL \/ o.group_id \in GroupTable

\* the references a request is about to write (an update names no course)
WriteRefsKnown(r) ==
    IF r.kind = "commit"
    THEN LET row == r.body[r.idx]
         IN  OfferingRefsKnown([course_id |-> row.course_id,
                                primary_room_id |-> row.room_id,
                                term_id |-> row.term_id,
                                section_id |-> row.section_id,
                                group_id |-> row.group_id])
    ELSE /\ r.kind = "create" => r.body.course_id \in CourseTable
         /\ r.body.primary_room_id = NULL \/ r.body.primary_room_id \in RoomIds
         /\ r.body.term_id = NULL \/ r.body.term_id \in TermTable
         /\ r.body.section_id = NULL \/ r.body.section_id \in SectionTable
         /\ r.body.group_id = NULL \/ r.body.group_id \in GroupTable

\* C27: every write path checks that the course, the room and the optional
\* term, section and group it names exist before it attempts the write: no
\* request reaches its INSERT or UPDATE naming one that does not exist, and
\* no booking is created or modified with one.
C27_ReferencesValidated ==
    /\ \A c \in SeqClients :
          req[c].stage \in {"insert", "check", "update"} => WriteRefsKnown(req[c])
    /\ \A o \in course_offerings : OfferingRefsKnown(o)

\* the candidate rooms in the order of the request: the rooms of room_ids
\* that exist, in the order of room_ids, or every room by ascending id
CandidateRooms(b) ==
    LET Known(r) == r \in RoomIds IN
    IF b.room_ids = <<>> THEN RoomTable ELSE SelectSeq(b.room_ids, Known)

\* the first position of room r in the sequence q
RoomPos(q, r) ==
    CHOOSE i \in 1..Len(q) : q[i] = r /\ \A j \in 1..(i - 1) : q[j] # r

\* when the i-th course of the call of client c is placed, the slot of
\* slot_minutes starting at minute t in the room and day lies in the work
\* window and meets no booking the call read and no earlier placement
SlotFree(c, i, room, day, t) ==
    LET b == req[c].body
        dur == req[c].resp.slot_minutes
        sg == req[c].resp.suggestions
    IN  /\ Mins(b.work_start) <= t /\ t + dur <= Mins(b.work_end)
        /\ \A o \in req[c].snap :
              (o.primary_room_id = room /\ o.day_of_week = day)
              => (o.end_time <= t * 60 \/ (t + dur) * 60 <= o.start_time)
        /\ \A j \in 1..(i - 1) :
              (sg[j].ok /\ sg[j].room_id = room /\ sg[j].day_of_week = day)
              => (Mins(sg[j].end_time) <= t \/ t + dur <= Mins(sg[j].start_time))

\* the i-th placement of the call of client c is the first free slot, days
\* ascending, then rooms in the order cand, then the earliest start
IsFirstFit(c, i, cand) ==
    LET b == req[c].body
        x == req[c].resp.suggestions[i]
        st == Mins(x.start_time)
        dur == req[c].resp.slot_minutes
    IN  /\ SlotFree(c, i, x.room_id, x.day_of_week, st)
        /\ \A d \in b.day_start..b.day_end, r \in SeqToSet(cand),
              t \in Mins(b.work_start)..(Mins(b.work_end) - dur) :
              SlotFree(c, i, r, d, t)
              => \/ x.day_of_week < d
                 \/ /\ x.day_of_week = d
                    /\ RoomPos(cand, x.room_id) < RoomPos(cand, r)
                 \/ /\ x.day_of_week = d /\ x.room_id = r /\ st <= t

\* C28: each placed course gets the first (day, room) pair with a free gap
\* of slot_minutes, days ascending and rooms in candidate order (the order
\* of room_ids when supplied, otherwise ascending id), and within the pair
\* the earliest such gap.
C28_FirstFit ==
    \A c \in Clients :
        SuggestOk(c)
        => \A i \in 1..Len(req[c].resp.suggestions) :
              req[c].resp.suggestions[i].ok
              => IsFirstFit(c, i, CandidateRooms(req[c].body))

\* when the i-th course of the call of client c is placed, some candidate
\* room and day of the range has a free slot of slot_minutes
HasFreeSlot(c, i) ==
    LET b == req[c].body
        dur == req[c].resp.slot_minutes
    IN  \E d \in b.day_start..b.day_end, r \in SeqToSet(CandidateRooms(b)),
           t \in Mins(b.work_start)..(Mins(b.work_end) - dur) :
           SlotFree(c, i, r, d, t)

\* the call of client c has one candidate room and one day, with no booking
OneEmptyRoomDay(c) ==
    LET b == req[c].body IN
    /\ Len(CandidateRooms(b)) = 1 /\ b.day_start = b.day_end
    /\ \A o \in req[c].snap :
          ~(o.primary_room_id = CandidateRooms(b)[1] /\ o.day_of_week = b.day_start)

\* C29: a course gets ok:false, with the reason "No free slot within working
\* window", iff no (day, room) pair has a free gap of slot_minutes given the
\* bookings and the earlier placements of the call; with one empty room, one
\* day and a window of L minutes the first floor(L / slot_minutes) courses
\* are placed back to back from the start of the window and the rest fail.
C29_PlacementComplete ==
    \A c \in Clients :
        SuggestOk(c)
        => \A i \in 1..Len(req[c].resp.suggestions) :
              LET x == req[c].resp.suggestions[i]
                  b == req[c].body
                  dur == req[c].resp.slot_minutes
                  L == Mins(b.work_end) - Mins(b.work_start)
              IN  /\ x.ok <=> HasFreeSlot(c, i)
                  /\ ~x.ok => x.reason = "No free slot within working window"
                  /\ OneEmptyRoomDay(c)
                       => /\ x.ok <=> i <= L \div dur
                          /\ x.ok => Mins(x.start_time)
                                       = Mins(b.work_start) + (i - 1) * dur

\* the bookings of the table in the room and day whose interval, in the
\* minutes of its HH:MM times, is not fully outside the window
RowsInWindow(table, room, day, ws, we) ==
    {o \in table : /\ o.primary_room_id = room /\ o.day_of_week = day
                   /\ ~(o.end_time \div 60 <= ws \/ o.start_time \div 60 >= we)}

\* the booking cut to the window
CutToWindow(o, ws, we) ==
    [s |-> IF o.start_time \div 60 < ws THEN ws ELSE o.start_time \div 60,
     e |-> IF o.end_time \div 60 > we THEN we ELSE o.end_time \div 60]

\* C30: the interval list of each (room, day) is clamped to the work window
\* and sorted: a booking fully outside the window is not listed, one partly
\* outside is listed cut at the window boundary, every listed interval has
\* work_start <= start < end <= work_end, and the list is sorted by start
\* after it is built and after every tentative insertion.
C30_IntervalsClampedSorted ==
    (pure.op = "intervals" /\ pure.stage = "listed")
    => \A r \in RoomIds :
          LET L == pure.used[r][0]
              ws == pure.window[1]
              we == pure.window[2]
              kept == RowsInWindow(pure.table, r, 0, ws, we)
          IN  /\ \A k \in 1..Len(L) :
                    ws <= L[k].s /\ L[k].s < L[k].e /\ L[k].e <= we
              /\ \A j, k \in 1..Len(L) : j < k => L[j].s <= L[k].s
              /\ pure.placed = 0
                   => /\ Len(L) = Cardinality(kept)
                      /\ SeqToSet(L) = {CutToWindow(o, ws, we) : o \in kept}

\* a placement was inserted before a listed booking, in a list that holds a
\* booking cut at the window boundary, from a table with a booking outside
C30_Witness ==
    /\ pure.op = "intervals" /\ pure.stage = "listed" /\ pure.placed >= 1
    /\ LET L == pure.used[1][0]
           ws == pure.window[1]
           we == pure.window[2]
           kept == RowsInWindow(pure.table, 1, 0, ws, we)
       IN  /\ \E o \in kept : o.start_time \div 60 < ws \/ o.end_time \div 60 > we
           /\ \E o \in pure.table : o.primary_room_id = 1 /\ o \notin kept
           /\ \E k \in 1..Len(L) :
                 /\ \A o \in kept : CutToWindow(o, ws, we) # L[k]
                 /\ k < Len(L)

\* C10: the two written forms of the conflict predicate agree on every pair
\* of intervals with the half-open intersection test, in both argument
\* orders, and intervals that only touch do not conflict.
C10_OverlapForms ==
    (pure.op = "overlaps" /\ pure.applied)
    => LET a == pure.a
           b == pure.b
           meet == a.s < b.e /\ b.s < a.e
       IN  /\ pure.sql = meet /\ pure.neg = meet
           /\ pure.sqlRev = meet /\ pure.negRev = meet
           /\ (a.e = b.s /\ a.s < a.e /\ b.s < b.e) => (~pure.sql /\ ~pure.neg)

\* C10 witness: both forms have been applied to two intervals that touch.
C10_Witness ==
    /\ pure.op = "overlaps" /\ pure.applied
    /\ pure.a.s < pure.a.e /\ pure.a.e = pure.b.s /\ pure.b.s < pure.b.e
    /\ ~pure.sql /\ ~pure.neg

====
